---- MODULE Spec2Model ----
(***************************************************************************)
(* Model of the codebase-analysis pipeline: main_controller.py (the run,   *)
(* the per-directory thread pool, process_file), utilities.py (the module  *)
(* logs and the analysis cache), graph_management.py (import resolution    *)
(* and the dependency graph), data_validation.py (the record validators)   *)
(* and file_handling.py (classification and the text read).                *)
(*                                                                         *)
(* Spec is a full run over a small tree; SpecFaults is the same run with a *)
(* root or output directory that may be unusable and a process that may be *)
(* killed; SpecPool is the run on machines of any size; SpecCache,         *)
(* SpecGraph and SpecGraphFaults are main()'s later phases over drawn      *)
(* module maps; SpecFile follows one process_file call; SpecValidate,      *)
(* SpecHash, SpecClassify, SpecLog, SpecResolve, SpecStats and SpecCount   *)
(* apply one function or a few to drawn inputs.                            *)
(***************************************************************************)
EXTENDS Integers, Sequences, FiniteSets, TLC

\* ------------------------------------------------------------------ bounds
NumFiles == 2      \* regular files of the walked tree
MaxWorkers == 2    \* multiprocessing.cpu_count() of the largest machine

Files == 1..NumFiles
\* The walked tree: the root directory (0) and a directory nested in it (1).
Dirs == {0, 1}
LastDir == CHOOSE d \in Dirs : \A e \in Dirs : e <= d
\* write(2) calls that one buffered json.dump of a record and its '\n' need: one
\* when the line fits the file object's buffer, more (two here) when it does not.
ChunkCounts == {1, 2}
OtherFile == NumFiles + 1   \* a cached path that exists on disk outside the walked tree
GoneFile == NumFiles + 2    \* a cached path whose file was deleted
None == "None"
NoHash == <<"None">>

VARIABLES
    fileDir,        \* input: the directory each file lies in directly
    behaviour,      \* input: what classification and the handler do for each file
    pc,             \* position of main()
    cur,            \* index of the directory os.walk yields next
    tasks,          \* the executor's tasks, one per file of the batch
    logs,           \* module log per module_path: the write(2) chunks in file order
    calls,          \* <<walked dir, file>> of every process_file invocation
    handled,        \* <<walked dir, file>> of every handler invocation
    codebase_data,  \* the module map main() works on
    skipped_files,  \* result of count_skipped_files
    analysis_cache, \* result of load_analysis_cache
    cacheFile,      \* content of analysis_cache.json: the mapping last written to it
    cacheStatus,    \* analysis_cache.json on disk: valid, missing, unreadable or invalid
    graph,          \* dependency graph: [nodes, edges]
    root_exists,    \* input: root_dir is an existing directory
    output_creatable, \* input: os.makedirs(output_dir) can succeed
    max_workers,    \* input: multiprocessing.cpu_count(), the size of each pool
    pf,             \* the frame of one process_file call followed step by step
    vd,             \* a record handed to the validators and what they returned
    hv,             \* two versions of a file and the hashes the cache gets for them
    cl,             \* a file given to the classifiers of file_handling.py and their results
    jl,             \* one module log: its text, the save_to_jsonl calls made on it
    ri,             \* one resolve_import call: its arguments and its result
    st,             \* a module map given to calculate_codebase_stats and its result
    fc              \* a record whose function_count is computed and stored

vars == <<fileDir, behaviour, pc, cur, tasks, logs, calls, handled,
          codebase_data, skipped_files, analysis_cache, cacheFile, cacheStatus,
          graph, root_exists, output_creatable, max_workers, pf, vd, hv,
          cl, jl, ri, st, fc>>

inputVars == <<fileDir, behaviour, root_exists, output_creatable, max_workers>>
\* State of the function-level specifications, which the run leaves alone.
laterVars == <<cl, jl, ri, st, fc>>
unitVars == <<pf, vd, hv, laterVars>>
poolVars == <<cur, tasks, logs, calls, handled>>

\* --------------------------------------------------------------- helpers
\* What process_file meets for a file: it is skipped as binary, its handler
\* fails (raises, or returns None), or its handler returns a record.
Behaviours == {"binary", "fail", "record"}
Rank(b) == CASE b = "binary" -> 0 [] b = "fail" -> 1 [] OTHER -> 2

\* hashlib.md5(text.encode('utf-8')).hexdigest(): one digest per text of the model
MD5(text) == <<"md5", text>>

\* The decoded text process_file reads for file f in this run.
ContentOf(f) == <<"text", f>>

\* Path(directory_path).rglob('*'): every regular file below directory d, at any depth.
\* Directory 1 is nested in directory 0, so the files below d lie in d or deeper.
Rglob(d) == {f \in Files : fileDir[f] >= d}

\* os.path.relpath(file_path.parent, root_dir): the module a file is logged under.
ModulePath(f) == fileDir[f]

NoTask == [st |-> "absent", d |-> 0, k |-> 0, n |-> 0]

Active(t) == t.st \in {"pending", "running", "writing"}

\* Mutant: the executor counts no task as running, so it starts a thread per
\* task whatever max_workers is.
NoneRunning == {}

\* The tasks a worker thread is executing.
Running == {f \in Files : tasks[f].st \in {"running", "writing"}}

\* ------------------------------------------------- text (character sequences)
\* A str is the sequence of its characters, so that endswith, replace and the
\* pathlib accessors act on it as they do in Python.
EndsWith(s, t) ==
    /\ Len(t) <= Len(s)
    /\ SubSeq(s, Len(s) - Len(t) + 1, Len(s)) = t

\* str.replace('.', '/')
ReplaceDots(s) == [i \in 1..Len(s) |-> IF s[i] = "." THEN "/" ELSE s[i]]

\* str.rfind(c) + 1: the last position of c in s, 0 when absent
LastIndexOf(s, c) ==
    LET at == {i \in 1..Len(s) : s[i] = c}
    IN IF at = {} THEN 0 ELSE CHOOSE i \in at : \A j \in at : j <= i

\* str(Path(file_path).parent) of a relative path without '.' or '..' components
PathParent(p) ==
    LET i == LastIndexOf(p, "/")
    IN IF i = 0 THEN <<".">> ELSE SubSeq(p, 1, i - 1)

\* Path(file_path).name
PathName(p) == SubSeq(p, LastIndexOf(p, "/") + 1, Len(p))

\* Path(file_path).suffix: from the last dot of the name, unless the name starts
\* or ends with that dot
PathSuffix(p) ==
    LET name == PathName(p)
        i == LastIndexOf(name, ".")
    IN IF i <= 1 \/ i = Len(name) THEN <<>> ELSE SubSeq(name, i, Len(name))

KnownExtensions ==
    << <<".", "p", "y">>, <<".", "j", "s">>, <<".", "t", "s">>,
       <<".", "j", "s", "x">>, <<".", "v", "u", "e">>,
       <<".", "s", "c", "s", "s">>, <<".", "c", "s", "s">>,
       <<".", "s", "a", "s", "s">>, <<".", "h", "t", "m", "l">>,
       <<".", "t", "s", "x">>, <<".", "x", "m", "l">>, <<".", "p", "h", "p">>,
       <<".", "c">>, <<".", "c", "p", "p">>, <<".", "h", "p", "p">>,
       <<".", "g", "o">>, <<".", "r", "s">> >>

\* Mutant: the importer's own extension is not tried.
KnownOnly(file_path) == KnownExtensions

\* possible_extensions: the fixed list followed by the importer's own extension
PossibleExtensions(file_path) == Append(KnownExtensions, PathSuffix(file_path))

\* possible_paths
PossiblePaths(import_statement, file_path) ==
    LET exts == PossibleExtensions(file_path)
    IN [i \in 1..Len(exts) |-> ReplaceDots(import_statement) \o exts[i]]

\* any(data['file_path'].endswith(path) for path in possible_paths)
MatchesAny(path, possible_paths) ==
    \E i \in 1..Len(possible_paths) : EndsWith(path, possible_paths[i])

\* ---------------------------------------------------------- the module map
\* codebase_data is a dict in insertion order: a sequence of
\* [module_path, records], the module paths distinct.
NoPath == <<>>      \* the None that resolve_import returns (falsy, like '')
\* resolve_import did not return: subscripting an entry of the module map raised.
RaisedPath == <<"raised">>

\* codebase_data.get(module_path, [])
DictGet(data, module_path) ==
    LET at == {i \in 1..Len(data) : data[i].module_path = module_path}
    IN IF at = {} THEN <<>> ELSE data[CHOOSE i \in at : TRUE].records

\* dict.update(other): keys of other replace or are appended in order
RECURSIVE DictUpdate(_, _)
DictUpdate(data, other) ==
    IF other = <<>> THEN data
    ELSE LET e == Head(other)
             at == {i \in 1..Len(data) : data[i].module_path = e.module_path}
             merged == IF at = {} THEN Append(data, e)
                       ELSE [i \in 1..Len(data) |-> IF i \in at THEN e ELSE data[i]]
         IN DictUpdate(merged, Tail(other))

\* The records of every module in iteration order (the nested loops over
\* codebase_data.items() / .values()).
RECURSIVE AllRecords(_)
AllRecords(data) ==
    IF data = <<>> THEN <<>> ELSE Head(data).records \o AllRecords(Tail(data))

\* First file_path of records that ends with a possible path, NoPath if none.
\* An entry that is None is reached before any match: data['file_path'] raises
\* TypeError.
RECURSIVE FirstMatch(_, _)
FirstMatch(records, possible_paths) ==
    IF records = <<>> THEN NoPath
    ELSE IF Head(records).kind = "None" THEN RaisedPath
    ELSE IF MatchesAny(Head(records).file_path, possible_paths)
         THEN Head(records).file_path
         ELSE FirstMatch(Tail(records), possible_paths)

\* The module whose records resolve_import searches first.
SameModuleRecords(file_path, data) == DictGet(data, PathParent(file_path))

resolve_import(import_statement, file_path, data) ==
    LET possible_paths == PossiblePaths(import_statement, file_path)
        same == FirstMatch(SameModuleRecords(file_path, data), possible_paths)
    IN IF same # NoPath THEN same
       ELSE FirstMatch(AllRecords(data), possible_paths)

\* ------------------------------------------------------------ the graph
NoLang == "unset"
\* nodes: path -> language attribute; edges: pairs of paths; resolved: the calls
\* of resolve_import made while building, <<importer, specifier, result>> (a result
\* NoPath is a call that logged the "Unable to resolve import" warning).
EmptyGraph == [nodes |-> <<>>, edges |-> {}, resolved |-> {}]

\* graph.add_node(path, language=language)
AddNode(g, path, language) ==
    [g EXCEPT !.nodes = (path :> language) @@ g.nodes]

\* graph.add_edge(u, v): the end points become nodes when they are not yet
AddEdge(g, u, v) ==
    LET withU == IF u \in DOMAIN g.nodes THEN g.nodes ELSE (u :> NoLang) @@ g.nodes
        withV == IF v \in DOMAIN withU THEN withU ELSE (v :> NoLang) @@ withU
    IN [g EXCEPT !.nodes = withV, !.edges = g.edges \cup {<<u, v>>}]

ResolvedLanguages == {"python", "javascript", "typescript"}

\* Mutant: the edge is added without the test of resolved_import.
AddResolvedUnchecked(g, file_path, resolved_import) ==
    AddEdge(g, file_path, resolved_import)

\* What the loop body does with one resolved_import.
AddResolved(g, file_path, resolved_import) ==
    IF resolved_import # NoPath THEN AddEdge(g, file_path, resolved_import) ELSE g

\* for import_statement in file_data['analysis']['imports']: ...
\* An exception of resolve_import leaves the loop for the except clause of the
\* record: the imports after it are not looked at.
RECURSIVE AddImports(_, _, _, _)
AddImports(g, file_path, imports, data) ==
    IF imports = <<>> THEN g
    ELSE LET resolved_import == resolve_import(Head(imports), file_path, data)
             added == IF resolved_import = RaisedPath THEN g
                      ELSE AddResolved(g, file_path, resolved_import)
             noted == [added EXCEPT !.resolved =
                          @ \cup {<<file_path, Head(imports), resolved_import>>}]
         IN IF resolved_import = RaisedPath THEN noted
            ELSE AddImports(noted, file_path, Tail(imports), data)

\* The try block of build_dependency_graph for one file_data. For an entry
\* that is None (TypeError) or a dict without 'language' (KeyError) the
\* arguments of add_node raise and the except clause leaves the graph as it is.
GraphRecord(g, fd, data) ==
    IF fd.kind # "record" THEN g
    ELSE LET withNode == AddNode(g, fd.file_path, fd.language)
         IN IF fd.language \in ResolvedLanguages
            THEN AddImports(withNode, fd.file_path, fd.analysis.imports, data)
            ELSE withNode

RECURSIVE GraphRecords(_, _, _)
GraphRecords(g, records, data) ==
    IF records = <<>> THEN g
    ELSE GraphRecords(GraphRecord(g, Head(records), data), Tail(records), data)

build_dependency_graph(data) == GraphRecords(EmptyGraph, AllRecords(data), data)

\* ------------------------------------------------------------ the cache
EmptyCache == <<>>

\* count_skipped_files: the None entries of the module map
RECURSIVE CountNone(_)
CountNone(records) ==
    IF records = <<>> THEN 0
    ELSE (IF Head(records).kind = "None" THEN 1 ELSE 0) + CountNone(Tail(records))

count_skipped_files(data) == CountNone(AllRecords(data))

\* What analysis_cache.json can be on disk: a JSON document that parses, no
\* file, a file that open() refuses (OSError), a file that json.load rejects
\* (JSONDecodeError, a ValueError).
CacheStatuses == {"valid", "missing", "unreadable", "invalid"}

\* Mutant: the stored mapping is returned whatever the state of the file.
LoadStoredAnyway(status, file) == file

\* load_analysis_cache: the stored mapping when the file exists, opens and
\* parses; {} when it does not exist or the except clause caught the failure.
load_analysis_cache(status, file) ==
    IF status = "valid" THEN file ELSE EmptyCache

\* Mutant: an entry of the path is reused whatever its hash.
CacheHitIgnoringHash(fd, cache) ==
    /\ fd.content # None
    /\ fd.file_path \in DOMAIN cache

\* The condition of main()'s cache reuse; content None has no .encode and the
\* exception leaves the record as it is.
CacheHit(fd, cache) ==
    /\ fd.content # None
    /\ fd.file_path \in DOMAIN cache
    /\ cache[fd.file_path].hash = MD5(fd.content)

\* The body of main()'s loop over the records for one file_data.
UpdateRecord(fd, cache) ==
    IF CacheHit(fd, cache)
    THEN [fd EXCEPT !.analysis = cache[fd.file_path].analysis]
    ELSE fd

UpdateFromCache(data, cache) ==
    [m \in 1..Len(data) |->
        [data[m] EXCEPT !.records =
            [i \in 1..Len(data[m].records) |-> UpdateRecord(data[m].records[i], cache)]]]

\* The cache entry cache_analysis_results builds for one file_data.
CacheEntry(fd) ==
    [hash |-> IF fd.content # None THEN MD5(fd.content) ELSE NoHash,
     analysis |-> fd.analysis]

\* cache = {}; cache[file_path] = entry for every record, in order; an entry
\* that is None or lacks 'content' raises in the try block and is passed over.
RECURSIVE BuildCache(_, _)
BuildCache(cache, records) ==
    IF records = <<>> THEN cache
    ELSE IF Head(records).kind # "record" THEN BuildCache(cache, Tail(records))
    ELSE BuildCache((Head(records).file_path :> CacheEntry(Head(records))) @@ cache,
                    Tail(records))

\* What open('analysis_cache.json', 'w') + json.dump leave in the file.
cache_analysis_results(data) == BuildCache(EmptyCache, AllRecords(data))

\* open(..., 'w') of a file that cannot be opened raises OSError, which the
\* function logs: nothing is written.
CacheWritable(status) == status # "unreadable"

\* ------------------------------------------------------- the run: main()
\* Entries a cache file left by an earlier run may hold: the files of the tree
\* with the hash of their present content, a file outside the tree and a
\* deleted file.
CachedAnalysis(p) == [imports |-> <<>>, origin |-> <<"cached", p>>]
PriorEntry(p) == [hash |-> MD5(ContentOf(p)), analysis |-> CachedAnalysis(p)]
WarmCache == [p \in Files \cup {OtherFile, GoneFile} |-> PriorEntry(p)]
PriorCaches == {EmptyCache, WarmCache}
OnDisk == Files \cup {OtherFile}

\* Files are told apart only by their place and behaviour: the trees are drawn
\* up to renaming of the files.
Ordered(fd, bh) ==
    \A f \in Files : \A g \in Files :
        f < g => \/ fd[f] < fd[g]
                 \/ fd[f] = fd[g] /\ Rank(bh[f]) <= Rank(bh[g])

\* Placeholders of the function-level specifications.
NoFrame == [at |-> "none"]
NoData == [at |-> "none"]
NoVersions == [at |-> "none"]
Idle == [at |-> "none"]

NoLaterUnits ==
    /\ cl = Idle
    /\ jl = Idle
    /\ ri = Idle
    /\ st = Idle
    /\ fc = Idle

NoUnits ==
    /\ pf = NoFrame
    /\ vd = NoData
    /\ hv = NoVersions
    /\ NoLaterUnits

\* The tree, the cache file and main()'s locals before process_all_directories.
InitRun ==
    /\ fileDir \in [Files -> Dirs]
    /\ behaviour \in [Files -> Behaviours]
    /\ Ordered(fileDir, behaviour)
    /\ cacheFile \in PriorCaches
    /\ cacheStatus = "valid"
    /\ NoUnits
    /\ cur = 0
    /\ tasks = [f \in Files |-> NoTask]
    /\ logs = [d \in Dirs |-> <<>>]
    /\ calls = {}
    /\ handled = {}
    /\ codebase_data = <<>>
    /\ skipped_files = 0
    /\ analysis_cache = EmptyCache
    /\ graph = EmptyGraph

\* A run whose root directory exists and whose output directory was created:
\* main() is about to call process_all_directories.
Init ==
    /\ InitRun
    /\ root_exists = TRUE
    /\ output_creatable = TRUE
    /\ max_workers = MaxWorkers
    /\ pc = "walk"

\* args_list of process_directory_concurrently: one task per file rglob finds.
Batch(d) == Rglob(d)

\* executor.map(process_file_in_pool, args_list): every task is queued.
ProcessDirectory ==
    /\ pc = "walk"
    /\ root_exists
    /\ cur \in Dirs
    /\ tasks' = [f \in Files |->
                    IF f \in Batch(cur)
                    THEN [st |-> "pending", d |-> cur, k |-> 0, n |-> 0]
                    ELSE tasks[f]]
    /\ pc' = "batch"
    /\ UNCHANGED <<inputVars, unitVars, cur, logs, calls, handled, codebase_data,
                   skipped_files, analysis_cache, cacheFile, cacheStatus, graph>>

\* A free worker thread takes a queued task: process_file_in_pool starts.
StartTask(f) ==
    /\ pc = "batch"
    /\ tasks[f].st = "pending"
    /\ Cardinality(Running) < max_workers
    /\ tasks' = [tasks EXCEPT ![f].st = "running"]
    /\ calls' = calls \cup {<<tasks[f].d, f>>}
    /\ UNCHANGED <<inputVars, unitVars, pc, cur, logs, handled, codebase_data,
                   skipped_files, analysis_cache, cacheFile, cacheStatus, graph>>

Finished(t) == [st |-> "done", d |-> t.d, k |-> 0, n |-> 0]

\* Mutant: a failure that leaves the task also ends the tasks still queued.
AfterFailureAbortsBatch(ts, f) ==
    [g \in DOMAIN ts |->
        IF g = f \/ ts[g].st = "pending" THEN [st |-> "done", d |-> ts[g].d, k |-> 0, n |-> 0]
        ELSE ts[g]]

\* The except clauses of process_file and process_file_in_pool: the failure is
\* logged and only the failing task ends.
AfterFailure(ts, f) == [ts EXCEPT ![f] = Finished(ts[f])]

\* process_file up to the call of save_to_jsonl: the binary check, the handler.
RunHandler(f) ==
    /\ pc = "batch"
    /\ tasks[f].st = "running"
    /\ IF behaviour[f] = "binary"
       THEN /\ tasks' = [tasks EXCEPT ![f] = Finished(tasks[f])]
            /\ handled' = handled
       ELSE /\ handled' = handled \cup {<<tasks[f].d, f>>}
            /\ IF behaviour[f] = "record"
               THEN \E n \in ChunkCounts :
                        tasks' = [tasks EXCEPT ![f].st = "writing", ![f].k = 1, ![f].n = n]
               ELSE tasks' = AfterFailure(tasks, f)
    /\ UNCHANGED <<inputVars, unitVars, pc, cur, logs, calls, codebase_data,
                   skipped_files, analysis_cache, cacheFile, cacheStatus, graph>>

\* save_to_jsonl: the file is opened for append and json.dump and the '\n' go
\* through the file object's buffer, which reaches the file in one write(2)
\* per filled buffer and a last one, ending with the '\n', on close.
SaveChunk(log, t, f) == Append(log, <<t.d, f, t.k, t.n>>)

WriteChunk(f) ==
    /\ pc = "batch"
    /\ tasks[f].st = "writing"
    /\ logs' = [logs EXCEPT ![ModulePath(f)] = SaveChunk(@, tasks[f], f)]
    /\ tasks' = IF tasks[f].k = tasks[f].n
                THEN [tasks EXCEPT ![f] = Finished(tasks[f])]
                ELSE [tasks EXCEPT ![f].k = @ + 1]
    /\ UNCHANGED <<inputVars, unitVars, pc, cur, calls, handled, codebase_data,
                   skipped_files, analysis_cache, cacheFile, cacheStatus, graph>>

\* Mutant: the executor is left without waiting (shutdown(wait=False)).
ExecutorNoWait == TRUE

\* Leaving the with block: ThreadPoolExecutor.__exit__ is shutdown(wait=True).
ExecutorDrained == \A f \in Files : ~Active(tasks[f])

\* The dict process_directory_concurrently returns: created empty, never filled.
DirectoryData == <<>>

ExecutorExit ==
    /\ pc = "batch"
    /\ ExecutorDrained
    /\ codebase_data' = DictUpdate(codebase_data, DirectoryData)
    /\ cur' = cur + 1
    /\ pc' = IF cur = LastDir THEN "count" ELSE "walk"
    /\ UNCHANGED <<inputVars, unitVars, tasks, logs, calls, handled,
                   skipped_files, analysis_cache, cacheFile, cacheStatus, graph>>

CountSkipped ==
    /\ pc = "count"
    /\ skipped_files' = count_skipped_files(codebase_data)
    /\ pc' = "load"
    /\ UNCHANGED <<inputVars, unitVars, poolVars, codebase_data, analysis_cache, cacheFile, cacheStatus, graph>>

LoadCache ==
    /\ pc = "load"
    /\ analysis_cache' = load_analysis_cache(cacheStatus, cacheFile)
    /\ pc' = "update"
    /\ UNCHANGED <<inputVars, unitVars, poolVars, codebase_data, skipped_files, cacheFile, cacheStatus, graph>>

UpdateData ==
    /\ pc = "update"
    /\ codebase_data' = UpdateFromCache(codebase_data, analysis_cache)
    /\ pc' = "graph"
    /\ UNCHANGED <<inputVars, unitVars, poolVars, skipped_files, analysis_cache, cacheFile, cacheStatus, graph>>

BuildGraph ==
    /\ pc = "graph"
    /\ graph' = build_dependency_graph(codebase_data)
    /\ pc' = "cache"
    /\ UNCHANGED <<inputVars, unitVars, poolVars, codebase_data, skipped_files,
                   analysis_cache, cacheFile, cacheStatus>>

CacheResults ==
    /\ pc = "cache"
    /\ IF CacheWritable(cacheStatus)
       THEN /\ cacheFile' = cache_analysis_results(codebase_data)
            /\ cacheStatus' = "valid"
       ELSE UNCHANGED <<cacheFile, cacheStatus>>
    /\ pc' = "done"
    /\ UNCHANGED <<inputVars, unitVars, poolVars, codebase_data, skipped_files,
                   analysis_cache, graph>>

\* main() from count_skipped_files on.
NextData ==
    \/ CountSkipped
    \/ LoadCache
    \/ UpdateData
    \/ BuildGraph
    \/ CacheResults

Next ==
    \/ ProcessDirectory
    \/ \E f \in Files : StartTask(f)
    \/ \E f \in Files : RunHandler(f)
    \/ \E f \in Files : WriteChunk(f)
    \/ ExecutorExit
    \/ NextData

Spec == Init /\ [][Next]_vars

\* ------------------------------------- main() over a given module map
MaxRecords == 2    \* records of a drawn module map
MaxImports == 2    \* import statements of a drawn module map, over all records

\* File paths relative to the root, as character sequences.
pAa == <<"A", "/", "a", ".", "p", "y">>
pAb == <<"A", "/", "b", ".", "p", "y">>
pBb == <<"B", "/", "b", ".", "p", "y">>
pBc == <<"B", "/", "c", ".", "j", "s">>
pAs == <<"A", "/", "s", ".", "c", "s", "s">>
\* Import specifiers.
sb == <<"b">>
sBb == <<"B", ".", "b">>
sc == <<"c">>
sxy == <<"x", ".", "y">>

\* guess_language: the lower-cased name of the lexer found for the file name.
LanguageOf(path) ==
    CASE PathSuffix(path) = <<".", "p", "y">> -> "python"
      [] PathSuffix(path) = <<".", "j", "s">> -> "javascript"
      [] PathSuffix(path) = <<".", "t", "s">> -> "typescript"
      [] PathSuffix(path) = <<".", "c", "s", "s">> -> "css"
      [] OTHER -> "text only"

\* The record a handler returns for the file at rel below the root directory
\* root: file_path is str(file_path), which starts with the root directory as it
\* was given (nothing for '.'), module_path is the parent relative to the root.
FileData(root, rel, content, imports) ==
    [kind |-> "record",
     file_path |-> root \o rel,
     module_path |-> PathParent(rel),
     language |-> LanguageOf(rel),
     content |-> content,
     analysis |-> [imports |-> imports, origin |-> <<"run">>]]

\* The module map of a sequence of records: module_path -> the records of that
\* module, modules and records in the order they were added.
RECURSIVE ModuleMap(_, _)
ModuleMap(data, records) ==
    IF records = <<>> THEN data
    ELSE LET fd == Head(records)
             at == {i \in 1..Len(data) : data[i].module_path = fd.module_path}
             added ==
                 IF at = {}
                 THEN Append(data, [module_path |-> fd.module_path, records |-> <<fd>>])
                 ELSE [i \in 1..Len(data) |->
                          IF i \in at
                          THEN [data[i] EXCEPT !.records = Append(@, fd)]
                          ELSE data[i]]
         IN ModuleMap(added, Tail(records))

\* Sequences of at most n distinct elements of S.
DistinctSeqs(S, n) ==
    UNION {{q \in [1..k -> S] : \A i \in 1..k : \A j \in 1..k : i # j => q[i] # q[j]}
           : k \in 0..n}

\* Sequences of at most n elements of S.
SeqsUpTo(S, n) == UNION {[1..k -> S] : k \in 0..n}

\* The elements of q that belong to owner i, in order.
RECURSIVE OwnedBy(_, _)
OwnedBy(q, i) ==
    IF q = <<>> THEN <<>>
    ELSE IF Head(q)[1] = i THEN <<Head(q)[2]>> \o OwnedBy(Tail(q), i)
         ELSE OwnedBy(Tail(q), i)

NoRun ==
    /\ fileDir = [f \in Files |-> 0]
    /\ behaviour = [f \in Files |-> "binary"]
    /\ root_exists = TRUE
    /\ output_creatable = TRUE
    /\ max_workers = MaxWorkers
    /\ cur = LastDir + 1
    /\ tasks = [f \in Files |-> NoTask]
    /\ logs = [d \in Dirs |-> <<>>]
    /\ calls = {}
    /\ handled = {}
    /\ skipped_files = 0
    /\ analysis_cache = EmptyCache
    /\ graph = EmptyGraph

\* Module maps for the cache phase: records of texts c1, c2 or no content, and
\* a cache file with entries for some of the paths under any of the hashes.
CachePaths == {pAa, pAb, pBb}
Contents == {"c1", "c2", None}
Hashes == {MD5("c1"), MD5("c2"), NoHash}

InitCache ==
    /\ NoRun
    /\ NoUnits
    /\ pc = "count"
    /\ \E paths \in DistinctSeqs(CachePaths, MaxRecords) \ {<<>>} :
       \E texts \in [1..Len(paths) -> Contents] :
           codebase_data =
               ModuleMap(<<>>, [i \in 1..Len(paths) |->
                                   FileData(<<>>, paths[i], texts[i], <<>>)])
    /\ \E cached \in SUBSET CachePaths :
       \E hashes \in [cached -> Hashes] :
           cacheFile = [p \in cached |->
                           [hash |-> hashes[p], analysis |-> CachedAnalysis(p)]]
    /\ cacheStatus \in CacheStatuses

SpecCache == InitCache /\ [][NextData]_vars

\* Module maps for the graph phase: some files of two modules in any order,
\* below the root directory '.' or 'r', with at most MaxImports import
\* statements among them.
GraphPaths == {pAa, pAb, pBb, pBc, pAs}
Specifiers == {sb, sBb, sc, sxy}
Roots == {<<>>, <<"r", "/">>}

InitGraph ==
    /\ NoRun
    /\ NoUnits
    /\ pc = "graph"
    /\ cacheFile = EmptyCache
    /\ cacheStatus = "valid"
    /\ \E root \in Roots :
       \E paths \in DistinctSeqs(GraphPaths, MaxRecords) \ {<<>>} :
       \E stmts \in SeqsUpTo((1..Len(paths)) \X Specifiers, MaxImports) :
           /\ \A i \in 1..Len(stmts) : \A j \in 1..Len(stmts) :
                  i < j => stmts[i][1] <= stmts[j][1]
           /\ codebase_data =
                  ModuleMap(<<>>, [i \in 1..Len(paths) |->
                                      FileData(root, paths[i], "c1", OwnedBy(stmts, i))])

\* main() from build_dependency_graph on.
NextGraph ==
    \/ BuildGraph
    \/ CacheResults

SpecGraph == InitGraph /\ [][NextGraph]_vars

\* ---------------------------------------------------- properties of the run
Range(s) == {s[i] : i \in DOMAIN s}

\* The chunks of a log are the lines of whole records: each record's chunks
\* 1..n follow one another.
RECURSIVE WholeRecords(_)
WholeRecords(log) ==
    \/ log = <<>>
    \/ LET c == Head(log)
       IN /\ c[3] = 1
          /\ Len(log) >= c[4]
          /\ \A j \in 1..c[4] : log[j] = <<c[1], c[2], j, c[4]>>
          /\ WholeRecords(SubSeq(log, c[4] + 1, Len(log)))

\* The lines of file f in its module log: one per '\n', which ends the last chunk.
LinesOf(f) ==
    {i \in DOMAIN logs[ModulePath(f)] :
        LET c == logs[ModulePath(f)][i] IN c[2] = f /\ c[3] = c[4]}

\* Every chunk of the record that the task of file f in the batch of directory d
\* wrote is in the module log of f.
Persisted(d, f) ==
    \E n \in ChunkCounts :
        \A k \in 1..n : <<d, f, k, n>> \in Range(logs[ModulePath(f)])

\* C1: after process_all_directories every file of the tree was handed to
\* process_file exactly once, and every file whose handler returns a record has
\* exactly one line in its module log.
C1_EachFileOnce ==
    pc = "done" =>
        \A f \in Files :
            /\ Cardinality({d \in Dirs : <<d, f>> \in calls}) = 1
            /\ behaviour[f] = "record" => Cardinality(LinesOf(f)) = 1

\* C2: whenever no worker is in the middle of a save_to_jsonl, every module log
\* consists of whole records only, whatever the interleaving of the writes was.
C2_LogsHoldWholeRecords ==
    (\A f \in Files : tasks[f].st # "writing") =>
        \A d \in Dirs : WholeRecords(logs[d])

\* C3: once the batch of a directory is over, every file of the batch whose
\* handler returns a record has its record in its module log, whatever the other
\* tasks of the batch did; and the run never stops before its end.
C3_FailureIsolated ==
    /\ \A d \in Dirs : cur > d =>
           \A f \in Batch(d) : behaviour[f] = "record" => Persisted(d, f)
    /\ pc # "done" => ENABLED Next

C3_Witness ==
    /\ pc = "done"
    /\ \E f \in Batch(0) : \E g \in Batch(0) :
           /\ behaviour[f] = "fail"
           /\ <<0, f>> \in handled
           /\ behaviour[g] = "record"
           /\ Persisted(0, g)

\* C4: the skipped-file count main() reports equals the number of files whose
\* analysis failed in the run.
C4_SkippedCountsFailures ==
    pc \in {"load", "update", "graph", "cache", "done"} =>
        skipped_files = Cardinality({f \in Files : behaviour[f] = "fail"})

\* C5: no handler is invoked for a file whose cache entry holds the hash of the
\* file's present content.
C5_CacheHitSkipsHandler ==
    pc # "done" =>
        \A f \in Files :
            (f \in DOMAIN cacheFile /\ cacheFile[f].hash = MD5(ContentOf(f))) =>
                \A d \in Dirs : <<d, f>> \notin handled

\* C7: cache_analysis_results leaves a cache file with an entry of the present
\* content for every file analysed in the run, with every earlier entry of an
\* untouched file that is still on disk unchanged, and with no entry of a file
\* that is not on disk.
C7_CacheMergedAndPruned ==
    [][pc = "cache" =>
        /\ \A f \in Files :
               (behaviour[f] = "record" /\ \E d \in Dirs : <<d, f>> \in handled) =>
                   /\ f \in DOMAIN cacheFile'
                   /\ cacheFile'[f].hash = MD5(ContentOf(f))
        /\ \A p \in DOMAIN cacheFile :
               (p \in OnDisk /\ \A d \in Dirs : <<d, p>> \notin handled) =>
                   /\ p \in DOMAIN cacheFile'
                   /\ cacheFile'[p] = cacheFile[p]
        /\ \A p \in DOMAIN cacheFile' : p \in OnDisk]_vars

\* C8: when build_dependency_graph starts, and from then on, every directory has
\* been walked and no task of any batch is queued or running.
C8_GraphAfterBarrier ==
    pc \in {"graph", "cache", "done"} =>
        /\ cur > LastDir
        /\ \A f \in Files : ~Active(tasks[f])
        /\ \A d \in Dirs : \A f \in Batch(d) : <<d, f>> \in calls

C8_Witness ==
    /\ pc = "graph"
    /\ Cardinality(calls) >= 2
    /\ \E f \in Files : LinesOf(f) # {}

\* ------------------------------------- properties of main() over a module map
Records == AllRecords(codebase_data)

\* C6: after main()'s cache loop a record carries the cached analysis of its own
\* file_path if the loaded cache has an entry for that path whose hash is the MD5
\* of the record's content, and its own analysis of this run otherwise.
C6_ReuseIffHashEqual ==
    pc \in {"graph", "cache", "done"} =>
        \A i \in 1..Len(Records) :
            LET fd == Records[i]
                valid == /\ fd.file_path \in DOMAIN analysis_cache
                         /\ fd.content # None
                         /\ analysis_cache[fd.file_path].hash = MD5(fd.content)
            IN IF valid
               THEN fd.analysis = analysis_cache[fd.file_path].analysis
               ELSE fd.analysis.origin = <<"run">>

C6_Witness ==
    /\ pc = "graph"
    /\ \E i \in 1..Len(Records) :
           /\ Records[i].file_path \in DOMAIN analysis_cache
           /\ Records[i].analysis = analysis_cache[Records[i].file_path].analysis
    /\ \E i \in 1..Len(Records) :
           /\ Records[i].file_path \in DOMAIN analysis_cache
           /\ analysis_cache[Records[i].file_path].hash # NoHash
           /\ Records[i].content # None
           /\ Records[i].analysis.origin = <<"run">>

\* Some record of records has a file_path that the specifier matches for this importer.
Matched(records, import_statement, file_path) ==
    \E i \in 1..Len(records) :
        MatchesAny(records[i].file_path, PossiblePaths(import_statement, file_path))

\* The paths of records that the specifier matches for this importer.
Targets(records, import_statement, file_path) ==
    {records[i].file_path : i \in
        {j \in 1..Len(records) :
            MatchesAny(records[j].file_path, PossiblePaths(import_statement, file_path))}}

\* C9: when a specifier matches a file of the importer's module and a file of
\* another module, resolve_import returns a file of the importer's module.
C9_SameModulePreferred ==
    pc \in {"cache", "done"} =>
        \A m \in 1..Len(codebase_data) :
        \A i \in 1..Len(codebase_data[m].records) :
        \A call \in graph.resolved :
            LET fd == codebase_data[m].records[i]
                own == codebase_data[m].records
                matchedElsewhere ==
                    \E o \in 1..Len(codebase_data) :
                        o # m /\ Matched(codebase_data[o].records, call[2], call[1])
            IN (call[1] = fd.file_path /\ Matched(own, call[2], call[1]) /\ matchedElsewhere)
                   => call[3] \in Targets(own, call[2], call[1])

RootDir == <<"r">>
SubDir == <<"s", "u", "b">>
FileNames == <<"a", "b", "c", "d", "e", "f">>

\* The file's path relative to the root: <name>.py, in sub/ for the nested directory.
RelPath(f) ==
    (IF fileDir[f] = 0 THEN <<>> ELSE SubDir \o <<"/">>)
        \o <<FileNames[f]>> \o <<".", "p", "y">>

\* str(file_path) of the task of file f: the root as given, then the relative path.
FilePath(f) == RootDir \o <<"/">> \o RelPath(f)

\* The dotted specifier that names file g from the root: sub.<name>.
SpecifierOf(g) ==
    (IF fileDir[g] = 0 THEN <<>> ELSE SubDir \o <<".">>) \o <<FileNames[g]>>

\* node.module of the import statements of file f: every file of the root
\* directory imports each file of the nested directory by its dotted path.
ImportsOf(f) ==
    IF fileDir[f] = 0 THEN {SpecifierOf(g) : g \in {h \in Files : fileDir[h] = 1}}
    ELSE {}

\* C11: at the end of a full run over a tree in which a file a of one directory
\* imports the dotted path of a file b of another directory, both analysed to a
\* record, the dependency graph has the edge from a to b.
C11_EndToEndEdge ==
    pc = "done" =>
        \A f \in Files : \A g \in Files :
            (/\ behaviour[f] = "record"
             /\ behaviour[g] = "record"
             /\ SpecifierOf(g) \in ImportsOf(f))
                => <<FilePath(f), FilePath(g)>> \in graph.edges

\* ------------------------------------------------- the graph as a whole
\* The pairs (source, target) for which some import of a record resolves to target.
ResolvedPairs(data) ==
    LET records == AllRecords(data)
    IN UNION {{<<records[i].file_path,
                 resolve_import(records[i].analysis.imports[k],
                                records[i].file_path, data)>> :
                  k \in 1..Len(records[i].analysis.imports)}
              : i \in 1..Len(records)}

\* C12: after build_dependency_graph the nodes are exactly the file_paths of the
\* records, each annotated with the record's language, and the edges are exactly
\* the pairs (source, target) for which an import of source, whatever the
\* language of source, resolves to target.
C12_GraphIsExact ==
    pc \in {"cache", "done"} =>
        /\ DOMAIN graph.nodes = {Records[i].file_path : i \in 1..Len(Records)}
        /\ \A i \in 1..Len(Records) :
               graph.nodes[Records[i].file_path] = Records[i].language
        /\ graph.edges = {e \in ResolvedPairs(codebase_data) : e[2] # NoPath}

\* The same statement for the records of the three languages whose imports
\* build_dependency_graph resolves.
C12_ExactForResolvedLanguages ==
    pc \in {"cache", "done"} =>
        /\ DOMAIN graph.nodes = {Records[i].file_path : i \in 1..Len(Records)}
        /\ \A i \in 1..Len(Records) :
               graph.nodes[Records[i].file_path] = Records[i].language
        /\ graph.edges =
               {e \in ResolvedPairs(codebase_data) :
                   /\ e[2] # NoPath
                   /\ \E i \in 1..Len(Records) :
                          /\ Records[i].file_path = e[1]
                          /\ Records[i].language \in ResolvedLanguages}

\* ------------------------------------------------- data_validation.py
\* JSON values by type; a dict is a function from its keys to values.
JNull == [t |-> "null"]
JStr(s) == [t |-> "string", s |-> s]
JInt(n) == [t |-> "integer", n |-> n]
JObj(fields) == [t |-> "object", f |-> fields]
EmptyDict == [k \in {} |-> JNull]

\* schema: the required keys and the type of every declared property.
Required == {"file_path", "language", "content", "analysis", "metadata"}
PropertyTypes ==
    [file_path |-> {"string"}, language |-> {"string"},
     content |-> {"string", "null"}, analysis |-> {"object"},
     metadata |-> {"object"}]
MetadataRequired == {"size"}
MetadataTypes ==
    [loc |-> {"integer"}, size |-> {"integer"}, md5_hash |-> {"string"}]

\* jsonschema.validate(instance=data, schema=schema) raises no ValidationError.
\* The typed properties of analysis are not drawn: analysis is {} or no object.
Conforms(data) ==
    /\ Required \subseteq DOMAIN data
    /\ \A k \in DOMAIN data \cap DOMAIN PropertyTypes : data[k].t \in PropertyTypes[k]
    /\ ("metadata" \in DOMAIN data /\ data["metadata"].t = "object") =>
           LET m == data["metadata"].f
           IN /\ MetadataRequired \subseteq DOMAIN m
              /\ \A k \in DOMAIN m \cap DOMAIN MetadataTypes : m[k].t \in MetadataTypes[k]

\* validate_json: both log calls read data['file_path']; the one in the except
\* clause for ValidationError raises KeyError when the key is missing, and an
\* exception raised inside an except clause is not caught by its sibling clause.
validate_json(data) ==
    IF Conforms(data) THEN "True"
    ELSE IF "file_path" \in DOMAIN data THEN "False"
    ELSE "KeyError"

\* data.get(key)
Get(data, key) == IF key \in DOMAIN data THEN data[key] ELSE JNull

\* bool(value)
Truthy(v) ==
    CASE v.t = "null" -> FALSE
      [] v.t = "string" -> v.s # ""
      [] v.t = "integer" -> v.n # 0
      [] v.t = "object" -> DOMAIN v.f # {}

validate_file_path(file_path) == IF Truthy(file_path) THEN "True" ELSE "False"

supported_languages ==
    {"python", "javascript", "html", "css", "json", "markdown", "text", "yaml",
     "xml", "image", "document", "unknown", "typescript", "jsx", "vue"}

validate_language(language) ==
    IF language.t = "string" /\ language.s \in supported_languages
    THEN "True" ELSE "False"

validate_content(content) ==
    IF content.t = "null" THEN "True"
    ELSE IF ~Truthy(content) THEN "False"
    ELSE "True"

validate_analysis(analysis) == "True"

\* validate_metadata of None or a dict; metadata["size"] < 0 raises TypeError
\* for a size that is a str.
validate_metadata(metadata) ==
    IF ~Truthy(metadata) THEN "False"
    ELSE IF "size" \notin DOMAIN metadata.f THEN "False"
    ELSE IF metadata.f["size"].t # "integer" THEN "TypeError"
    ELSE IF metadata.f["size"].n < 0 THEN "False"
    ELSE "True"

validate_data(data) ==
    IF validate_file_path(Get(data, "file_path")) # "True" THEN "False"
    ELSE IF validate_language(Get(data, "language")) # "True" THEN "False"
    ELSE IF validate_content(Get(data, "content")) # "True" THEN "False"
    ELSE IF validate_analysis(Get(data, "analysis")) # "True" THEN "False"
    ELSE IF validate_metadata(Get(data, "metadata")) # "True"
         THEN validate_metadata(Get(data, "metadata"))
    ELSE IF validate_json(data) # "True" THEN validate_json(data)
    ELSE "True"

\* Records handed to the validators: every key may be missing, or hold a value
\* of the declared type or of another one.
Absent == [t |-> "absent"]
FieldValues ==
    [file_path |-> {Absent, JNull, JStr(""), JStr("example.py")},
     language |-> {Absent, JStr("python"), JStr("cobol"), JInt(1)},
     content |-> {Absent, JNull, JStr(""), JStr("print('Hello, World!')")},
     analysis |-> {Absent, JObj(EmptyDict), JStr("{}")},
     metadata |-> {Absent, JNull, JObj(EmptyDict),
                   JObj([md5_hash |-> JStr("abcdef")]),
                   JObj([size |-> JInt(24)]),
                   JObj([size |-> JInt(0 - 1)]),
                   JObj([size |-> JStr("24")]),
                   JObj([size |-> JInt(24), loc |-> JStr("1")])}]

\* The dict of the keys that were given a value.
DictOf(values) ==
    [k \in {j \in DOMAIN values : values[j] # Absent} |-> values[k]]

\* No run of main() is under way.
NoMain ==
    /\ NoRun
    /\ pc = "done"
    /\ codebase_data = <<>>
    /\ cacheFile = EmptyCache
    /\ cacheStatus = "valid"

InitValidate ==
    /\ NoMain
    /\ pf = NoFrame
    /\ hv = NoVersions
    /\ NoLaterUnits
    /\ \E file_path \in FieldValues.file_path :
       \E language \in FieldValues.language :
       \E content \in FieldValues.content :
       \E analysis \in FieldValues.analysis :
       \E metadata \in FieldValues.metadata :
           vd = [at |-> "given",
                 data |-> DictOf([file_path |-> file_path, language |-> language,
                                  content |-> content, analysis |-> analysis,
                                  metadata |-> metadata]),
                 json |-> "", metadata |-> "", all |-> ""]

\* The three validators applied to the record.
Validate ==
    /\ vd.at = "given"
    /\ vd' = [vd EXCEPT !.at = "validated",
                        !.json = validate_json(vd.data),
                        !.metadata = validate_metadata(Get(vd.data, "metadata")),
                        !.all = validate_data(vd.data)]
    /\ UNCHANGED <<inputVars, poolVars, pc, codebase_data, skipped_files,
                   analysis_cache, cacheFile, cacheStatus, graph, pf, hv, laterVars>>

SpecValidate == InitValidate /\ [][Validate]_vars

\* A record with every required key, each of the declared type, and an integer size.
WellFormed(data) ==
    /\ Required \subseteq DOMAIN data
    /\ \A k \in Required : data[k].t \in PropertyTypes[k]
    /\ "size" \in DOMAIN data["metadata"].f
    /\ \A k \in DOMAIN data["metadata"].f \cap DOMAIN MetadataTypes :
           data["metadata"].f[k].t \in MetadataTypes[k]

\* C15: validate_json returns True for a record with all five required keys of
\* the declared types and an integer size, and False, without raising, for
\* every record that lacks a required key or has a wrongly typed one.
C15_ValidateJsonTotal ==
    vd.at = "validated" =>
        vd.json = (IF WellFormed(vd.data) THEN "True" ELSE "False")

\* The record's metadata is a dict whose size is an integer below 0.
NegativeSize(data) ==
    /\ "metadata" \in DOMAIN data
    /\ data["metadata"].t = "object"
    /\ "size" \in DOMAIN data["metadata"].f
    /\ data["metadata"].f["size"].t = "integer"
    /\ data["metadata"].f["size"].n < 0

\* C16: validate_json and validate_data return False for every record whose
\* metadata.size is below 0, and validate_metadata returns False for a metadata
\* dict without size.
C16_NegativeSizeRejected ==
    vd.at = "validated" =>
        /\ NegativeSize(vd.data) => (vd.json = "False" /\ vd.all = "False")
        /\ ("metadata" \in DOMAIN vd.data
             /\ vd.data["metadata"].t = "object"
             /\ "size" \notin DOMAIN vd.data["metadata"].f) => vd.metadata = "False"

\* ---------------------------------------------- process_file, step by step
\* The keys of FILE_TYPE_HANDLERS by the handler they are registered for.
FILE_TYPE_HANDLERS ==
    LET python == {".py", ".pyi", ".py-tpl", ".pyx", ".pyw"}
        javascript == {".js", ".mjs", ".cjs", ".node", ".coffee"}
        html == {".html", ".htm"}
        css == {".css", ".scss", ".sass"}
        typescript == {".ts", ".tsx", ".mts"}
        yaml == {".yaml", ".yml"}
        image == {".png", ".jpg", ".jpeg", ".gif", ".bmp", ".ico", ".svg"}
        document == {".doc", ".pdf", ".odt", ".docx", ".xlsx", ".ppt", ".pptx"}
        text == {".txt", ".applescript", ".c", ".jinja2", ".h", ".cpp", ".hpp",
                 ".asm", ".f", ".template", ".keep", ".R", ".go", ".rs", ".misc",
                 ".message", ".no_trailing_newline", ".g", ".csh", ".asp", ".in"}
        other == {".json", ".md", ".jsx", ".vue", ".xml"}
    IN [k \in python \cup javascript \cup html \cup css \cup typescript \cup yaml
               \cup image \cup document \cup text \cup other |->
           CASE k \in python -> "process_python_file"
             [] k \in javascript -> "process_javascript_file"
             [] k \in html -> "process_html_file"
             [] k \in css -> "process_css_file"
             [] k \in typescript -> "process_typescript_file"
             [] k \in yaml -> "process_yaml_file"
             [] k \in image -> "process_image_file"
             [] k \in document -> "process_document_file"
             [] k \in text -> "process_text_file"
             [] k = ".json" -> "process_json_file"
             [] k = ".md" -> "process_markdown_file"
             [] k = ".jsx" -> "process_jsx_file"
             [] k = ".vue" -> "process_vue_file"
             [] k = ".xml" -> "process_xml_file"]

\* FILE_TYPE_HANDLERS.get(file_type, default_handler)
HandlerFor(file_type) ==
    IF file_type \in DOMAIN FILE_TYPE_HANDLERS
    THEN FILE_TYPE_HANDLERS[file_type]
    ELSE "default_handler"

\* is_text_file: the MIME types taken for text
text_types ==
    {"text/plain", "text/html", "text/css", "text/javascript",
     "application/json", "application/xml"}
is_text_file(file_type) == file_type \in text_types
is_binary_file(file_type) == ~is_text_file(file_type)

\* Handlers that validate their record with validate_json and append it to
\* <module_path>.jsonl themselves before returning it.
ValidatingHandlers ==
    {"process_python_file", "process_html_file", "process_css_file",
     "process_javascript_file", "process_typescript_file", "process_jsx_file",
     "process_vue_file"}
\* Handlers whose try block works on a content of None (async_read skipped or
\* could not decode the file).
NoneTolerantHandlers == {"default_handler", "process_document_file"}

NoFileData == [kind |-> "None"]

\* The dict a handler builds; size is os.path.getsize(file_path).
HandlerData(file_path, language, content) ==
    [kind |-> "record", file_path |-> file_path, language |-> language,
     content |-> content, size |-> IF content = None THEN 4 ELSE 24]

\* The record as the JSON instance validate_json is given.
InstanceOf(data) ==
    [file_path |-> JStr(data.file_path),
     language |-> IF data.language = None THEN JNull ELSE JStr(data.language),
     content |-> IF data.content = None THEN JNull ELSE JStr(data.content),
     analysis |-> JObj(EmptyDict),
     metadata |-> JObj([size |-> JInt(data.size)])]

\* await handler(file_path, module_path, language, nlp): the handler raises
\* into process_file (process_image_file takes two parameters: TypeError),
\* returns None (its except clause, or a failed validation) or returns its dict.
HandlerResult(handler, file_path, language, content, fails) ==
    LET data == HandlerData(file_path, language, content)
    IN IF handler = "process_image_file" THEN [kind |-> "raised"]
       ELSE IF fails THEN NoFileData
       ELSE IF content = None /\ handler \notin NoneTolerantHandlers THEN NoFileData
       ELSE IF handler \in ValidatingHandlers /\ validate_json(InstanceOf(data)) # "True"
            THEN NoFileData
       ELSE data

\* What the classifiers and the read can return for a file.
Extensions == {".py", ".js", ".png", ".dat"}
FileTypes ==
    {"text/plain", "text/html", "application/json", "text/x-script.python",
     "image/png", None}
LexerLanguage(ext) ==
    CASE ext = ".py" -> "python"
      [] ext = ".js" -> "javascript"
      [] OTHER -> "text only"

InitFile ==
    /\ NoMain
    /\ vd = NoData
    /\ hv = NoVersions
    /\ NoLaterUnits
    /\ \E exists \in BOOLEAN :
       \E ext \in Extensions :
       \E file_type \in FileTypes :
       \E language \in {LexerLanguage(ext), None} :
       \E content \in {"text", None} :
       \E fails \in BOOLEAN :
           pf = [at |-> "start",
                 file_path |-> "test" \o ext, ext |-> ext, exists |-> exists,
                 guess_file_type |-> file_type, guess_language |-> language,
                 async_read |-> content, fails |-> fails,
                 file_type |-> "", language |-> "", handler |-> "",
                 called |-> <<>>, file_data |-> NoFileData,
                 handler_saved |-> <<>>, saved |-> <<>>]

fileRest == <<inputVars, poolVars, pc, codebase_data, skipped_files,
              analysis_cache, cacheFile, cacheStatus, graph, vd, hv, laterVars>>

\* if not Path(file_path).exists(): return
PfExists ==
    /\ pf.at = "start"
    /\ pf' = [pf EXCEPT !.at = IF pf.exists THEN "exists" ELSE "end"]
    /\ UNCHANGED fileRest

\* if await is_binary_file(file_path): return
PfBinary ==
    /\ pf.at = "exists"
    /\ pf' = [pf EXCEPT !.at = IF is_binary_file(pf.guess_file_type)
                               THEN "end" ELSE "text"]
    /\ UNCHANGED fileRest

\* file_type = await guess_file_type(...); language = await guess_language(...)
PfClassify ==
    /\ pf.at = "text"
    /\ pf' = [pf EXCEPT !.at = "classified",
                        !.file_type = pf.guess_file_type,
                        !.language = pf.guess_language]
    /\ UNCHANGED fileRest

\* handler = FILE_TYPE_HANDLERS.get(file_type, default_handler)
PfDispatch ==
    /\ pf.at = "classified"
    /\ pf' = [pf EXCEPT !.at = "dispatched", !.handler = HandlerFor(pf.file_type)]
    /\ UNCHANGED fileRest

\* file_data = await handler(file_path, module_path, language, nlp)
PfHandler ==
    /\ pf.at = "dispatched"
    /\ LET result == HandlerResult(pf.handler, pf.file_path, pf.language,
                                   pf.async_read, pf.fails)
           call == <<pf.handler, pf.file_path, "module_path", pf.language, "nlp">>
       IN pf' = [pf EXCEPT
                    !.called = Append(@, call),
                    !.at = IF result.kind = "raised" THEN "end" ELSE "returned",
                    !.file_data = IF result.kind = "raised" THEN NoFileData ELSE result,
                    !.handler_saved =
                        IF result.kind = "record" /\ pf.handler \in ValidatingHandlers
                        THEN Append(@, result) ELSE @]
    /\ UNCHANGED fileRest

\* if file_data: file_data['language'] = language; doc = nlp(file_data['content'])
\* and the counts; nlp(None) raises, which ends process_file in its except clause.
PfAnnotate ==
    /\ pf.at = "returned"
    /\ pf' = IF pf.file_data.kind = "None" THEN [pf EXCEPT !.at = "end"]
             ELSE IF pf.file_data.content = None THEN [pf EXCEPT !.at = "end"]
             ELSE [pf EXCEPT !.at = "annotated",
                             !.file_data.language = pf.language]
    /\ UNCHANGED fileRest

\* save_to_jsonl(file_data, f"{output_dir}/{module_path}.jsonl"); module_path,
\* a relpath, is never empty.
PfSave ==
    /\ pf.at = "annotated"
    /\ pf' = [pf EXCEPT !.at = "end", !.saved = Append(@, pf.file_data)]
    /\ UNCHANGED fileRest

NextFile ==
    \/ PfExists
    \/ PfBinary
    \/ PfClassify
    \/ PfDispatch
    \/ PfHandler
    \/ PfAnnotate
    \/ PfSave

SpecFile == InitFile /\ [][NextFile]_vars

\* C13: a file whose extension is registered in FILE_TYPE_HANDLERS is handled by
\* the handler registered for that extension (a .py file by process_python_file),
\* a file handled otherwise by default_handler unless its content type has a
\* handler, and the chosen handler is called exactly once with
\* (path, module_path, language, nlp).
C13_HandlerByExtension ==
    /\ pf.at \in {"dispatched", "returned", "annotated"} =>
           IF pf.ext \in DOMAIN FILE_TYPE_HANDLERS
           THEN pf.handler = FILE_TYPE_HANDLERS[pf.ext]
           ELSE pf.handler \in {"default_handler", HandlerFor(pf.file_type)}
    /\ pf.at \in {"returned", "annotated"} =>
           pf.called = << <<pf.handler, pf.file_path, "module_path", pf.language, "nlp">> >>

\* C14: every record process_file or its handler appended to a module log has a
\* file_path, a language other than None and a size that is not negative.
C14_PersistedRecordFields ==
    \A log \in {pf.saved, pf.handler_saved} :
        \A i \in 1..Len(log) :
            /\ log[i].file_path # None
            /\ log[i].language # None
            /\ log[i].size >= 0

\* ------------------------------------- main() under faults of its environment
\* main() from its first statement, with a root directory that may be missing
\* and an output directory that may be impossible to create.
InitFaults ==
    /\ InitRun
    /\ root_exists \in BOOLEAN
    /\ output_creatable \in BOOLEAN
    /\ max_workers = MaxWorkers
    /\ pc = "setup"

\* os.makedirs(output_dir, exist_ok=True), outside every try block: an OSError
\* leaves main() and asyncio.run, and the interpreter exits with status 1.
MakeOutputDir ==
    /\ pc = "setup"
    /\ pc' = IF output_creatable THEN "walk" ELSE "raised"
    /\ UNCHANGED <<inputVars, unitVars, poolVars, codebase_data, skipped_files,
                   analysis_cache, cacheFile, cacheStatus, graph>>

\* os.walk of a directory that does not exist: scandir's error is swallowed
\* (onerror is None) and the generator yields nothing, so the loop of
\* process_all_directories ends at once and {} is returned.
WalkNothing ==
    /\ pc = "walk"
    /\ ~root_exists
    /\ pc' = "count"
    /\ UNCHANGED <<inputVars, unitVars, poolVars, codebase_data, skipped_files,
                   analysis_cache, cacheFile, cacheStatus, graph>>

\* The process is killed. Its threads stop where they are; what reached the
\* files stays. During cache_analysis_results the kill can fall between
\* open(..., 'w'), which truncates the file, and the end of json.dump.
Crash ==
    /\ pc \in {"walk", "batch", "count", "load", "update", "graph", "cache"}
    /\ pc' = "crashed"
    /\ \E torn \in (IF pc = "cache" /\ CacheWritable(cacheStatus)
                    THEN BOOLEAN ELSE {FALSE}) :
           IF torn
           THEN /\ cacheFile' = EmptyCache
                /\ cacheStatus' = "invalid"
           ELSE UNCHANGED <<cacheFile, cacheStatus>>
    /\ UNCHANGED <<inputVars, unitVars, poolVars, codebase_data, skipped_files,
                   analysis_cache, graph>>

NextFaults ==
    \/ MakeOutputDir
    \/ WalkNothing
    \/ Crash
    \/ Next

SpecFaults == InitFaults /\ [][NextFaults]_vars

\* C17: when the root directory does not exist or the output directory cannot
\* be created, no process_file call is made and main() gets no further than
\* its set-up: it never reaches the counting, cache, graph or cache-write
\* phases nor a normal end.
C17_SetupFailureAborts ==
    ~(root_exists /\ output_creatable) =>
        /\ calls = {}
        /\ pc \in {"setup", "walk", "raised", "crashed"}

\* C18: a crash at any step of the run leaves the cache file as it was before
\* the run, parseable, and leaves whole record lines only in every module log.
C18_CrashLeavesStoreIntact ==
    [][pc' = "crashed" =>
        /\ cacheFile' = cacheFile
        /\ cacheStatus' = cacheStatus
        /\ cacheStatus' = "valid"
        /\ \A d \in Dirs : WholeRecords(logs'[d])]_vars

\* --------------------------------------------------- loading the cache
\* C19: load_analysis_cache always returns: the stored mapping when the cache
\* file exists, opens and parses, the empty mapping when it is missing,
\* unreadable or not valid JSON; main() goes on either way, and after an empty
\* load every record keeps the analysis of this run.
C19_CacheLoadIsTotal ==
    /\ pc \in {"update", "graph", "cache"} =>
           analysis_cache = (IF cacheStatus = "valid" THEN cacheFile ELSE EmptyCache)
    /\ (pc \in {"graph", "cache"} /\ cacheStatus # "valid") =>
           \A i \in 1..Len(Records) : Records[i].analysis.origin = <<"run">>
    /\ pc # "done" => ENABLED NextData

C19_Witness ==
    /\ pc = "graph"
    /\ cacheStatus = "invalid"
    /\ analysis_cache = EmptyCache
    /\ \E i \in 1..Len(Records) :
           /\ Records[i].file_path \in DOMAIN cacheFile
           /\ Records[i].content # None
           /\ cacheFile[Records[i].file_path].hash = MD5(Records[i].content)
           /\ Records[i].analysis.origin = <<"run">>

\* ------------------------------------------- the content hash of a file
MaxBytes == 2      \* length of a drawn file, in bytes

\* The bytes a file is made of: a letter, carriage return, line feed, and a
\* byte that is not valid UTF-8.
ByteValues == {"a", "CR", "LF", "xFF"}

\* The text layer of open(file_path, 'r', encoding='utf-8') with newline=None:
\* '\r\n' and '\r' are translated to '\n' when reading.
RECURSIVE TranslateNewlines(_)
TranslateNewlines(bytes) ==
    IF bytes = <<>> THEN ""
    ELSE IF Head(bytes) = "CR"
         THEN IF Len(bytes) >= 2 /\ bytes[2] = "LF"
              THEN "\n" \o TranslateNewlines(SubSeq(bytes, 3, Len(bytes)))
              ELSE "\n" \o TranslateNewlines(Tail(bytes))
    ELSE IF Head(bytes) = "LF" THEN "\n" \o TranslateNewlines(Tail(bytes))
    ELSE Head(bytes) \o TranslateNewlines(Tail(bytes))

\* read_text_file: the decoded text, None when decoding raises UnicodeDecodeError.
read_text_file(bytes) ==
    IF \E i \in 1..Len(bytes) : bytes[i] = "xFF" THEN None
    ELSE TranslateNewlines(bytes)

\* The hash cache_analysis_results stores, and main() compares, for a file of
\* these bytes: that of the record content its handler read.
ContentHash(bytes) == CacheEntry(FileData(<<>>, pAa, read_text_file(bytes), <<>>)).hash

InitHash ==
    /\ NoMain
    /\ pf = NoFrame
    /\ vd = NoData
    /\ NoLaterUnits
    /\ \E old \in SeqsUpTo(ByteValues, MaxBytes) :
       \E new \in SeqsUpTo(ByteValues, MaxBytes) :
           hv = [at |-> "given", old |-> old, new |-> new,
                 old_hash |-> NoHash, new_hash |-> NoHash]

\* Both versions of the file are read and hashed.
HashVersions ==
    /\ hv.at = "given"
    /\ hv' = [hv EXCEPT !.at = "hashed",
                        !.old_hash = ContentHash(hv.old),
                        !.new_hash = ContentHash(hv.new)]
    /\ UNCHANGED <<inputVars, poolVars, pc, codebase_data, skipped_files,
                   analysis_cache, cacheFile, cacheStatus, graph, pf, vd, laterVars>>

SpecHash == InitHash /\ [][HashVersions]_vars

\* C20: the content hashes of two versions of a file differ exactly when their
\* bytes differ.
C20_HashChangesIffBytesChange ==
    hv.at = "hashed" =>
        ((hv.old_hash # hv.new_hash) <=> (hv.old # hv.new))

\* ------------------------------------------- the batch of one directory
\* C25: the batch process_directory_concurrently builds for the walked directory
\* holds a task for each file lying directly in that directory and for no file
\* of a directory below it, and every line of a module log is the record of a
\* file of that module.
C25_BatchIsOneDirectory ==
    /\ pc = "batch" =>
           {f \in Files : tasks[f].st # "absent" /\ tasks[f].d = cur}
               = {f \in Files : fileDir[f] = cur}
    /\ \A d \in Dirs : \A i \in 1..Len(logs[d]) : ModulePath(logs[d][i][2]) = d

\* ------------------------------------------------ the pool on any machine
\* The run on a machine with any number of processors up to MaxWorkers.
InitPool ==
    /\ InitRun
    /\ root_exists = TRUE
    /\ output_creatable = TRUE
    /\ max_workers \in 1..MaxWorkers
    /\ pc = "walk"

SpecPool == InitPool /\ [][Next]_vars

\* C26: the directories are walked one after the other, each handed to
\* process_directory_concurrently once; a task is queued or running only while
\* the batch of its own directory is under way, so none of the next directory
\* starts before those of the current one are over; and the tasks running at
\* one time never outnumber max_workers.
C26_SequentialWalkBoundedPool ==
    /\ Cardinality({f \in Files : tasks[f].st \in {"running", "writing"}}) <= max_workers
    /\ \A f \in Files : Active(tasks[f]) => (pc = "batch" /\ tasks[f].d = cur)
    /\ \A c \in calls : c[1] < cur \/ (c[1] = cur /\ pc = "batch")
    /\ \A d \in Dirs : \A f \in Files :
           (tasks[f].st # "absent" /\ tasks[f].d = d) => d <= cur

C26_Witness ==
    /\ pc = "batch"
    /\ cur = LastDir
    /\ Cardinality({f \in Files : tasks[f].st \in {"running", "writing"}}) = max_workers
    /\ \E f \in Files : tasks[f].st = "pending" /\ tasks[f].d = cur
    /\ \E c \in calls : c[1] < cur

\* ------------------------------------ file_handling.py: the classifiers
\* What main() works on, which the function-level specifications leave alone.
mainVars == <<inputVars, poolVars, pc, codebase_data, skipped_files,
              analysis_cache, cacheFile, cacheStatus, graph>>

\* An exception that leaves the called function.
Raised == "raised"

\* A file as the classifiers meet it. state: "missing", "unreadable" (open() is
\* refused) or "readable". kind: what filetype.guess finds in a readable file
\* (None: no signature matches; else kind.mime, possibly empty). magic: what
\* magic.from_file(mime=True) gives for it: a MIME type, nothing, or an error
\* of libmagic (magic.MagicException, not an OSError). bytes: its content.
FileStates == {"missing", "unreadable", "readable"}
SignatureKinds == {None, "", "image/png"}
MagicResults == (FileTypes \ {None}) \cup {"", "MagicException"}

\* Mutant: guess_file_type without its except clause.
GuessFileTypeUncaught(file) ==
    IF file.state # "readable" THEN Raised
    ELSE IF file.kind = None \/ file.kind = ""
         THEN IF file.magic = "MagicException" THEN Raised
              ELSE IF file.magic = "" THEN None
              ELSE file.magic
    ELSE file.kind

\* guess_file_type: filetype.guess opens the file, so a missing or unreadable
\* file raises FileNotFoundError or PermissionError, OSErrors the except clause
\* turns into None; an exception of another class leaves the function.
guess_file_type(file) ==
    IF file.state # "readable" THEN None
    ELSE IF file.kind = None \/ file.kind = ""
         THEN IF file.magic = "MagicException" THEN Raised
              ELSE IF file.magic = "" THEN None
              ELSE file.magic
    ELSE file.kind

\* is_text_file with its try block: whatever guess_file_type raises is caught
\* and answered with False.
TextFile(file) ==
    LET file_type == guess_file_type(file)
    IN IF file_type = Raised THEN FALSE ELSE is_text_file(file_type)

\* is_binary_file: the negation of a fresh is_text_file call.
BinaryFile(file) == ~TextFile(file)

\* async_read: None for a binary file, else what read_text_file returns.
async_read(file) ==
    IF BinaryFile(file) THEN None ELSE read_text_file(file.bytes)

PyBool(b) == IF b THEN "True" ELSE "False"

InitClassify ==
    /\ NoMain
    /\ pf = NoFrame /\ vd = NoData /\ hv = NoVersions
    /\ jl = Idle /\ ri = Idle /\ st = Idle /\ fc = Idle
    /\ \E state \in FileStates :
       \E kind \in (IF state = "readable" THEN SignatureKinds ELSE {None}) :
       \E magic \in (IF state = "readable" THEN MagicResults ELSE {""}) :
       \E bytes \in (IF state = "readable" THEN SeqsUpTo(ByteValues, MaxBytes)
                     ELSE {<<>>}) :
           cl = [at |-> "given",
                 file |-> [state |-> state, kind |-> kind, magic |-> magic,
                           bytes |-> bytes],
                 guess_file_type |-> "", is_text_file |-> "",
                 is_binary_file |-> "", async_read |-> ""]

\* The four classifiers are called on the file.
Classify ==
    /\ cl.at = "given"
    /\ cl' = [cl EXCEPT !.at = "classified",
                        !.guess_file_type = guess_file_type(cl.file),
                        !.is_text_file = PyBool(TextFile(cl.file)),
                        !.is_binary_file = PyBool(BinaryFile(cl.file)),
                        !.async_read = async_read(cl.file)]
    /\ UNCHANGED <<mainVars, pf, vd, hv, jl, ri, st, fc>>

SpecClassify == InitClassify /\ [][Classify]_vars

\* The file is missing, unreadable, or neither library determines its type.
Unclassifiable(file) ==
    \/ file.state \in {"missing", "unreadable"}
    \/ file.kind \in {None, ""} /\ file.magic = ""

\* C21: for a file that is missing, unreadable or of a type that cannot be
\* determined, guess_file_type returns None, is_text_file False, is_binary_file
\* True and async_read None; for every file is_text_file, is_binary_file and
\* async_read return and is_binary_file is the negation of is_text_file.
C21_ClassificationNeverRaises ==
    cl.at = "classified" =>
        /\ cl.is_text_file \in {"True", "False"}
        /\ cl.is_binary_file \in {"True", "False"}
        /\ cl.is_binary_file # cl.is_text_file
        /\ cl.async_read # Raised
        /\ Unclassifiable(cl.file) =>
               /\ cl.guess_file_type = None
               /\ cl.is_text_file = "False"
               /\ cl.is_binary_file = "True"
               /\ cl.async_read = None

C21_Witness ==
    /\ cl.at = "classified"
    /\ cl.file.state = "unreadable"
    /\ cl.guess_file_type = None
    /\ cl.is_binary_file = "True"
    /\ cl.async_read = None

\* --------------------------------------- utilities.py: one module log
MaxSaves == 3      \* save_to_jsonl calls made on the log

\* The records saved, and the text json.dump produces for one: the chunks its
\* encoder hands to f.write one after the other, on a single line.
LogRecords == {"a", "b"}
Doc(file_data) == <<"{", file_data, "}">>
\* json.dump(file_data, f) followed by f.write('\n')
Line(file_data) == Doc(file_data) \o <<"\n">>

\* Mutant: the log is opened with mode 'w'.
SaveOverwrites(text, file_data, n) == SubSeq(Line(file_data), 1, n)

\* save_to_jsonl on a log holding text, of which the first n chunks reach the
\* file: all of them when the call succeeds; fewer when makedirs or open raises
\* (none), when json.dump raises part-way (a circular reference is a ValueError
\* raised after the chunks before it were written) or when the flush on close
\* fails. The with block closes the file on the way out, so what was written
\* stays, and the except clause only logs.
save_to_jsonl(text, file_data, n) == text \o SubSeq(Line(file_data), 1, n)

\* Iterating a text file: the lines, each with its '\n', the last maybe without.
RECURSIVE PyLines(_)
PyLines(text) ==
    LET ends == {i \in 1..Len(text) : text[i] = "\n"}
    IN IF text = <<>> THEN <<>>
       ELSE IF ends = {} THEN <<text>>
       ELSE LET i == CHOOSE j \in ends : \A k \in ends : j <= k
            IN <<SubSeq(text, 1, i)>> \o PyLines(SubSeq(text, i + 1, Len(text)))

\* json.loads(line) returns: the line, without the white space around it, is
\* one JSON document. Otherwise it raises json.JSONDecodeError.
JsonLoads(line) ==
    LET doc == IF line # <<>> /\ line[Len(line)] = "\n"
               THEN SubSeq(line, 1, Len(line) - 1) ELSE line
    IN \E file_data \in LogRecords : doc = Doc(file_data)

\* verify_jsonl: True when every line loads, False when the except clause for
\* JSONDecodeError is taken.
verify_jsonl(text) ==
    IF \A i \in 1..Len(PyLines(text)) : JsonLoads(PyLines(text)[i])
    THEN "True" ELSE "False"

InitLog ==
    /\ NoMain
    /\ pf = NoFrame /\ vd = NoData /\ hv = NoVersions
    /\ cl = Idle /\ ri = Idle /\ st = Idle /\ fc = Idle
    /\ jl = [at |-> "open", text |-> <<>>, before |-> <<>>, calls |-> <<>>,
             verified |-> ""]

\* One save_to_jsonl call, in this run or a later one, that succeeds (n is the
\* whole line) or fails after n chunks.
Save ==
    /\ Len(jl.calls) < MaxSaves
    /\ \E file_data \in LogRecords :
       \E n \in 0..Len(Line(file_data)) :
           jl' = [jl EXCEPT !.text = save_to_jsonl(jl.text, file_data, n),
                            !.before = jl.text,
                            !.calls = Append(@, <<file_data, n>>),
                            !.verified = ""]
    /\ UNCHANGED <<mainVars, pf, vd, hv, cl, ri, st, fc>>

\* verify_jsonl is called on the log.
Verify ==
    /\ jl.at = "open"
    /\ jl.verified = ""
    /\ jl' = [jl EXCEPT !.verified = verify_jsonl(jl.text)]
    /\ UNCHANGED <<mainVars, pf, vd, hv, cl, ri, st, fc>>

NextLog ==
    \/ Save
    \/ Verify

SpecLog == InitLog /\ [][NextLog]_vars

\* The call succeeded: its whole line was written.
Succeeded(call) == call[2] = Len(Line(call[1]))

\* The lines of the calls, one after the other.
RECURSIVE LinesOfCalls(_)
LinesOfCalls(saves) ==
    IF saves = <<>> THEN <<>>
    ELSE Line(Head(saves)[1]) \o LinesOfCalls(Tail(saves))

\* C22: when every save_to_jsonl call made on a log so far succeeded, the log
\* is the lines of the calls in call order, one per call (a record saved twice
\* has two lines), the text before the last call is a prefix of it, and
\* verify_jsonl returns True; and verify_jsonl returns False on any log with a
\* line that is not one JSON document.
C22_AppendOnlyLog ==
    /\ (\A i \in 1..Len(jl.calls) : Succeeded(jl.calls[i])) =>
           /\ jl.text = LinesOfCalls(jl.calls)
           /\ SubSeq(jl.text, 1, Len(jl.before)) = jl.before
           /\ jl.verified \in {"", "True"}
    /\ jl.verified # "" =>
           (jl.verified = "False" <=>
               \E i \in 1..Len(PyLines(jl.text)) :
                   \A file_data \in LogRecords :
                       PyLines(jl.text)[i] \notin {Doc(file_data), Line(file_data)})

C22_Witness ==
    /\ Len(jl.calls) = MaxSaves
    /\ \A i \in 1..Len(jl.calls) : Succeeded(jl.calls[i])
    /\ jl.calls[1][1] = jl.calls[2][1]
    /\ jl.verified = "True"

\* C29: every save_to_jsonl call either appends one whole line or leaves the
\* log as it was, so the log is always the lines of the calls that succeeded
\* and no line holds the leftover of a failed call.
C29_SaveIsAllOrNothing ==
    /\ jl.calls # <<>> =>
           LET last == jl.calls[Len(jl.calls)]
           IN jl.text = (IF Succeeded(last) THEN jl.before \o Line(last[1])
                         ELSE jl.before)
    /\ jl.verified \in {"", "True"}

\* --------------------------- the graph of a module map with failed entries
\* The entry of a module's list for a file whose analysis gave None, and a dict
\* that has a file_path but neither 'language' nor 'analysis'.
Skipped(module_path) == [kind |-> "None", module_path |-> module_path]
Partial(root, rel) ==
    [kind |-> "partial", file_path |-> root \o rel, module_path |-> PathParent(rel)]

EntryKinds == {"record", "None", "partial"}
FaultPaths == {pAa, pAb, pBb}
FaultSpecifiers == {sb, sxy}

\* Module maps of up to MaxRecords + 1 entries, each a record, None or a
\* partial dict, with at most MaxImports import statements among the records.
InitGraphFaults ==
    /\ NoRun
    /\ NoUnits
    /\ pc = "graph"
    /\ cacheFile = EmptyCache
    /\ cacheStatus = "valid"
    /\ \E paths \in DistinctSeqs(FaultPaths, MaxRecords + 1) \ {<<>>} :
       \E kinds \in [1..Len(paths) -> EntryKinds] :
       \E stmts \in SeqsUpTo((1..Len(paths)) \X FaultSpecifiers, MaxImports) :
           /\ \A i \in 1..Len(stmts) : \A j \in 1..Len(stmts) :
                  i < j => stmts[i][1] <= stmts[j][1]
           /\ \A i \in 1..Len(stmts) : kinds[stmts[i][1]] = "record"
           /\ codebase_data =
                  ModuleMap(<<>>, [i \in 1..Len(paths) |->
                      CASE kinds[i] = "record" ->
                               FileData(<<>>, paths[i], "c1", OwnedBy(stmts, i))
                        [] kinds[i] = "None" -> Skipped(PathParent(paths[i]))
                        [] OTHER -> Partial(<<>>, paths[i])])

SpecGraphFaults == InitGraphFaults /\ [][NextGraph]_vars

\* The entries of the module map that carry a file_path.
WithPath(records) == SelectSeq(records, LAMBDA fd : fd.kind # "None")
\* The well-formed records of the module map.
Whole(records) == SelectSeq(records, LAMBDA fd : fd.kind = "record")

\* C27: whatever entries of the module map are None or lack keys, every
\* well-formed record has its node, and each of its imports that some entry
\* matches has an edge to a matching file.
C27_GraphFailureConfined ==
    pc \in {"cache", "done"} =>
        \A i \in 1..Len(Whole(Records)) :
            LET fd == Whole(Records)[i]
                imports == fd.analysis.imports
            IN /\ fd.file_path \in DOMAIN graph.nodes
               /\ fd.language \in ResolvedLanguages =>
                      \A k \in 1..Len(imports) :
                          Matched(WithPath(Records), imports[k], fd.file_path) =>
                              \E t \in Targets(WithPath(Records), imports[k], fd.file_path) :
                                  <<fd.file_path, t>> \in graph.edges

\* ------------------------------------------------ one resolve_import call
pAab == <<"A", "/", "a", "b", ".", "p", "y">>
pAm == <<"A", "/", "m", ".", "m", "j", "s">>
pBn == <<"B", "/", "n", ".", "m", "j", "s">>
sn == <<"n">>

\* Module maps of records of two modules, among them files whose extension is
\* not in the fixed list and a file whose name ends with the name of another.
ResolvePaths == {pAa, pAb, pBb, pBc, pAab, pAm, pBn}
ResolveSpecifiers == {sb, sBb, sc, sn, sxy}

\* resolve_import is called as build_dependency_graph calls it: for an import
\* statement of one of the records of the module map.
InitResolve ==
    /\ NoMain
    /\ pf = NoFrame /\ vd = NoData /\ hv = NoVersions
    /\ cl = Idle /\ jl = Idle /\ st = Idle /\ fc = Idle
    /\ \E paths \in DistinctSeqs(ResolvePaths, MaxRecords) \ {<<>>} :
       \E importer \in 1..Len(paths) :
       \E import_statement \in ResolveSpecifiers :
           ri = [at |-> "called",
                 data |-> ModuleMap(<<>>, [i \in 1..Len(paths) |->
                                              FileData(<<>>, paths[i], "c1", <<>>)]),
                 file_path |-> paths[importer],
                 import_statement |-> import_statement,
                 result |-> NoPath]

Resolve ==
    /\ ri.at = "called"
    /\ ri' = [ri EXCEPT !.at = "returned",
                        !.result = resolve_import(ri.import_statement, ri.file_path,
                                                  ri.data)]
    /\ UNCHANGED <<mainVars, pf, vd, hv, cl, jl, st, fc>>

SpecResolve == InitResolve /\ [][Resolve]_vars

\* The extensions a match may end with: the known ones and the importer's own.
NamedExtensions(importer) ==
    Range(KnownExtensions) \cup {PathSuffix(importer)}

\* path ends in the specifier, its dots replaced by '/', followed by ext.
EndsInSpecifier(path, specifier, ext) ==
    EndsWith(path, ReplaceDots(specifier) \o ext)

\* The file_paths of the records of data that end so for some named extension.
Candidates(data, specifier, importer) ==
    {fd.file_path : fd \in
        {r \in Range(AllRecords(data)) :
            \E ext \in NamedExtensions(importer) :
                EndsInSpecifier(r.file_path, specifier, ext)}}

\* C23: resolve_import returns a path other than None exactly when some record
\* of the module map has a file_path ending in the specifier, its dots replaced
\* by '/', followed by a known extension or the importer's own; the path
\* returned is the file_path of such a record.
C23_ResolvesIffSomeRecordMatches ==
    ri.at = "returned" =>
        /\ ri.result # RaisedPath
        /\ ri.result # NoPath <=>
               Candidates(ri.data, ri.import_statement, ri.file_path) # {}
        /\ ri.result # NoPath =>
               ri.result \in Candidates(ri.data, ri.import_statement, ri.file_path)

C23_Witness ==
    /\ ri.at = "returned"
    /\ ri.file_path = pAm
    /\ ri.import_statement = sn
    /\ ri.result = pBn

\* The last components of path are those of the specifier, the last of them
\* followed by ext: the match starts at the beginning of a component.
WholeComponents(path, specifier, ext) ==
    LET tail == ReplaceDots(specifier) \o ext
    IN /\ EndsWith(path, tail)
       /\ Len(path) = Len(tail) \/ path[Len(path) - Len(tail)] = "/"

\* C28: the file resolve_import returns has the specifier's components as its
\* last components, followed by an extension, so a file whose name merely ends
\* with the specifier is never returned; and an importer that the specifier
\* does not name is never returned for itself.
C28_WholeComponentsOnly ==
    (ri.at = "returned" /\ ri.result # NoPath) =>
        /\ \E ext \in NamedExtensions(ri.file_path) :
               WholeComponents(ri.result, ri.import_statement, ext)
        /\ ri.result = ri.file_path =>
               \E ext \in NamedExtensions(ri.file_path) :
                   WholeComponents(ri.file_path, ri.import_statement, ext)

\* ------------------------------- main_controller.py: the codebase statistics
\* The stats dict as calculate_codebase_stats creates it.
EmptyStats ==
    [total_files |-> 0, total_loc |-> 0, total_size |-> 0,
     files_by_language |-> <<>>, loc_by_language |-> <<>>,
     size_by_language |-> <<>>, files_by_module |-> <<>>]

\* The try block for one file_data. total_files is counted first; then
\* file_data['metadata']['loc'] raises TypeError for None and KeyError for a
\* record without loc, and the except clause leaves the rest of the block out.
StatsRecord(stats, fd) ==
    LET counted == [stats EXCEPT !.total_files = @ + 1]
    IN IF fd.kind = "None" THEN counted
       ELSE IF "loc" \notin DOMAIN fd.metadata THEN counted
       ELSE LET language == fd.language
                summed == [counted EXCEPT !.total_loc = @ + fd.metadata.loc,
                                          !.total_size = @ + fd.metadata.size]
                opened ==
                    IF language \in DOMAIN summed.files_by_language THEN summed
                    ELSE [summed EXCEPT
                             !.files_by_language = (language :> 0) @@ @,
                             !.loc_by_language = (language :> 0) @@ @,
                             !.size_by_language = (language :> 0) @@ @]
            IN [opened EXCEPT !.files_by_language[language] = @ + 1,
                              !.loc_by_language[language] = @ + fd.metadata.loc,
                              !.size_by_language[language] = @ + fd.metadata.size]

RECURSIVE StatsRecords(_, _)
StatsRecords(stats, records) ==
    IF records = <<>> THEN stats
    ELSE StatsRecords(StatsRecord(stats, Head(records)), Tail(records))

\* for module_path, module_data in codebase_data.items(): ...
RECURSIVE StatsModules(_, _)
StatsModules(stats, data) ==
    IF data = <<>> THEN stats
    ELSE LET m == Head(data)
             noted == [stats EXCEPT
                          !.files_by_module = (m.module_path :> Len(m.records)) @@ @]
         IN StatsModules(StatsRecords(noted, m.records), Tail(data))

calculate_codebase_stats(data) == StatsModules(EmptyStats, data)

\* Entries of a module map as the handlers leave them: source records with loc
\* and size, an image or document record with a size only, and None.
StatModules == {<<"A">>, <<"B">>}
StatEntries ==
    {[kind |-> "record", module_path |-> m, language |-> e[1],
      metadata |-> [loc |-> e[2], size |-> e[3]]] :
         m \in StatModules,
         e \in {<<"python", 1, 10>>, <<"python", 2, 20>>, <<"javascript", 1, 10>>}}
    \cup {[kind |-> "record", module_path |-> m, language |-> "image",
           metadata |-> [size |-> 5]] : m \in StatModules}
    \cup {Skipped(m) : m \in StatModules}

InitStats ==
    /\ NoMain
    /\ pf = NoFrame /\ vd = NoData /\ hv = NoVersions
    /\ cl = Idle /\ jl = Idle /\ ri = Idle /\ fc = Idle
    /\ \E entries \in SeqsUpTo(StatEntries, MaxRecords) :
           st = [at |-> "given", data |-> ModuleMap(<<>>, entries),
                 stats |-> EmptyStats]

Stats ==
    /\ st.at = "given"
    /\ st' = [st EXCEPT !.at = "computed",
                        !.stats = calculate_codebase_stats(st.data)]
    /\ UNCHANGED <<mainVars, pf, vd, hv, cl, jl, ri, fc>>

SpecStats == InitStats /\ [][Stats]_vars

\* The sum of the values of the function m.
RECURSIVE SumValues(_)
SumValues(m) ==
    IF DOMAIN m = {} THEN 0
    ELSE LET k == CHOOSE x \in DOMAIN m : TRUE
         IN m[k] + SumValues([x \in DOMAIN m \ {k} |-> m[x]])

\* The loc and the size of the records of q, summed.
RECURSIVE SumLoc(_)
SumLoc(q) ==
    IF q = <<>> THEN 0
    ELSE (IF "loc" \in DOMAIN Head(q).metadata THEN Head(q).metadata.loc ELSE 0)
             + SumLoc(Tail(q))

RECURSIVE SumSize(_)
SumSize(q) ==
    IF q = <<>> THEN 0 ELSE Head(q).metadata.size + SumSize(Tail(q))

\* C24: for every module map, records without loc and None entries included,
\* total_files is the number of analysed records, total_loc and total_size are
\* the sums of their loc and size, and the per-language files, loc and size
\* add up to these totals.
C24_StatsAddUp ==
    st.at = "computed" =>
        LET analysed == Whole(AllRecords(st.data))
        IN /\ st.stats.total_files = Len(analysed)
           /\ st.stats.total_loc = SumLoc(analysed)
           /\ st.stats.total_size = SumSize(analysed)
           /\ SumValues(st.stats.files_by_language) = st.stats.total_files
           /\ SumValues(st.stats.loc_by_language) = st.stats.total_loc
           /\ SumValues(st.stats.size_by_language) = st.stats.total_size

\* ------------------------------------ utilities.py: the function count
MaxFunctions == 2  \* entries of analysis.functions of a drawn record

\* lexer.name of the pygments lexer found for a file, and str.lower of it.
LexerNames == {"Python", "JavaScript", "TypeScript", "Text only"}
Lower(name) ==
    CASE name = "Python" -> "python"
      [] name = "JavaScript" -> "javascript"
      [] name = "TypeScript" -> "typescript"
      [] name = "Text only" -> "text only"

\* guess_language for a file with this lexer: language.lower()
guess_language(lexer_name) == Lower(lexer_name)

\* calculate_function_count: the length of analysis.functions for the
\* languages 'Python' and 'JavaScript', 0 for any other.
calculate_function_count(file_data) ==
    IF file_data.language = "Python" THEN Len(file_data.analysis.functions)
    ELSE IF file_data.language = "JavaScript" THEN Len(file_data.analysis.functions)
    ELSE 0

FunctionNames == {"f", "g", "h"}

\* The record a handler returned for a file: language is what process_file got
\* from guess_language and passed to the handler.
InitCount ==
    /\ NoMain
    /\ pf = NoFrame /\ vd = NoData /\ hv = NoVersions
    /\ cl = Idle /\ jl = Idle /\ ri = Idle /\ st = Idle
    /\ \E lexer_name \in LexerNames :
       \E functions \in SeqsUpTo(FunctionNames, MaxFunctions) :
           fc = [at |-> "returned",
                 file_data |-> [language |-> guess_language(lexer_name),
                                analysis |-> [functions |-> functions]],
                 function_count |-> 0, saved |-> 0 - 1, cached |-> 0 - 1]

\* process_file: file_data['analysis']['function_count'] =
\* calculate_function_count(file_data)
Annotate ==
    /\ fc.at = "returned"
    /\ fc' = [fc EXCEPT !.at = "annotated",
                        !.function_count = calculate_function_count(fc.file_data)]
    /\ UNCHANGED <<mainVars, pf, vd, hv, cl, jl, ri, st>>

\* process_file: save_to_jsonl(file_data, ...) writes the record, its
\* function_count included.
Persist ==
    /\ fc.at = "annotated"
    /\ fc' = [fc EXCEPT !.at = "saved", !.saved = fc.function_count]
    /\ UNCHANGED <<mainVars, pf, vd, hv, cl, jl, ri, st>>

\* cache_analysis_results: 'function_count': calculate_function_count(file_data)
CacheCount ==
    /\ fc.at = "saved"
    /\ fc' = [fc EXCEPT !.at = "cached",
                        !.cached = calculate_function_count(fc.file_data)]
    /\ UNCHANGED <<mainVars, pf, vd, hv, cl, jl, ri, st>>

NextCount ==
    \/ Annotate
    \/ Persist
    \/ CacheCount

SpecCount == InitCount /\ [][NextCount]_vars

\* C30: for a record whose language is python or javascript, the function_count
\* process_file computes and persists, and the one cache_analysis_results
\* stores, are the number of entries of analysis.functions.
C30_FunctionCountIsLength ==
    fc.at # "none" /\ fc.file_data.language \in {"python", "javascript"} =>
        /\ fc.at \in {"annotated", "saved", "cached"} =>
               fc.function_count = Len(fc.file_data.analysis.functions)
        /\ fc.at \in {"saved", "cached"} =>
               fc.saved = Len(fc.file_data.analysis.functions)
        /\ fc.at = "cached" =>
               fc.cached = Len(fc.file_data.analysis.functions)

====
